---- MODULE Spec2Model ----
(***************************************************************************)
(* The notebook dynamic-scope.ipynb observes sys.exc_info(), the           *)
(* interpreter's handled-error indicator, from six code cells run on       *)
(* CPython 3.5.  The model is a small-step interpreter for exactly the     *)
(* statements those cells use (print(sys.exc_info()), try/raise/except,    *)
(* the end of an except block, a call, g = gen(), next(g), next(g, None),  *)
(* yield, while True), the six cells and their functions as instruction    *)
(* lists, and, beside the real indicator, the thread-local save/restore    *)
(* variable sys._exc_info that the notebook's prose compares it with.      *)
(*                                                                         *)
(* A session runs cells of the notebook, in the notebook's order, in one   *)
(* kernel, or (cell 0) an arbitrary driver assembled from the same         *)
(* statements.                                                             *)
(***************************************************************************)
EXTENDS Integers, Sequences, FiniteSets

VARIABLES
    cell,        \* the cell being run: 2..7 of the notebook, 0 = arbitrary driver
    stack,       \* the call stack, module-level frame first
    gens,        \* generator objects by the name they are bound to
    tstate_exc,  \* the thread state's handled error (what sys.exc_info() reads)
    tl_exc,      \* sys._exc_info of the thread-local save/restore pattern
    out,         \* what the most recent print(..., sys.exc_info()) showed
    uncaught,    \* the error that left the top level, "None" if none did
    steps,       \* instructions the arbitrary driver has run
    glob_exc,    \* sys._exc_info as a plain global that `except:` assigns
    gl,          \* sys._exc_info as a generator-local: the values put aside
                 \* and the current value (last), for the thread (0) and for
                 \* each generator
    seen         \* "inside gen:" lines the running cell has printed

vars == <<cell, stack, gens, tstate_exc, tl_exc, out, uncaught, steps,
          glob_exc, gl,
          seen>>

----------------------------------------------------------------------------
\* The arbitrary driver runs at most MaxSteps instructions of its own (the
\* generators and functions it starts run on top of that), so it can bind at
\* most that many generators.
MaxSteps == 6
GenNames == 1..MaxSteps

NoExc == "None"
DriverErrors == {"ValueError", "KeyError"}

I(op, s, n, line) == [op |-> op, s |-> s, n |-> n, line |-> line]

----------------------------------------------------------------------------
\* The code of the notebook.  SETUP_EXCEPT n is `try:` with its `except:`
\* body at instruction n; POP_EXCEPT is the end of an except body; JUMP n is
\* the back edge of `while True:`; RETURN at module level is the end of the
\* cell.

Cell2 ==
    << I("PRINT", "no exceptions in progress:", 0, 76),
       I("SETUP_EXCEPT", "", 4, 77),
       I("RAISE", "ValueError", 0, 78),
       I("PRINT", "inside except: block:", 0, 81),
       I("POP_EXCEPT", "", 0, 81),
       I("PRINT", "after except: block:", 0, 83),
       I("RETURN", "", 0, 83) >>

subroutine ==
    << I("PRINT", "in subroutine:", 0, 108),
       I("RETURN", "", 0, 108) >>

Cell3 ==
    << I("SETUP_EXCEPT", "", 3, 110),
       I("RAISE", "ValueError", 0, 111),
       I("CALL", "subroutine", 0, 113),
       I("POP_EXCEPT", "", 0, 113),
       I("RETURN", "", 0, 113) >>

Cell4 ==
    << I("SETUP_EXCEPT", "", 3, 151),
       I("RAISE", "ValueError", 0, 152),
       I("PRINT", "single-nested:", 0, 155),
       I("SETUP_EXCEPT", "", 6, 156),
       I("RAISE", "KeyError", 0, 157),
       I("PRINT", "double-nested:", 0, 160),
       I("POP_EXCEPT", "", 0, 160),
       I("PRINT", "single-nested again:", 0, 162),
       I("POP_EXCEPT", "", 0, 162),
       I("RETURN", "", 0, 162) >>

\* (faulty variant: the loop body queries twice before it yields)
gen5_twice ==
    << I("PRINT", "inside gen:", 0, 209),
       I("PRINT", "inside gen:", 0, 209),
       I("YIELD", "", 0, 210),
       I("JUMP", "", 1, 208) >>

gen5 ==
    << I("PRINT", "inside gen:", 0, 209),
       I("YIELD", "", 0, 210),
       I("JUMP", "", 1, 208) >>

Cell5 ==
    << I("MAKE_GEN", "gen5", 1, 212),
       I("SETUP_EXCEPT", "", 4, 213),
       I("RAISE", "ValueError", 0, 214),
       I("NEXT", "", 1, 217),
       I("POP_EXCEPT", "", 0, 217),
       I("NEXT", "", 1, 220),
       I("SETUP_EXCEPT", "", 9, 222),
       I("RAISE", "KeyError", 0, 223),
       I("NEXT", "", 1, 226),
       I("POP_EXCEPT", "", 0, 226),
       I("RETURN", "", 0, 226) >>

gen6 ==
    << I("SETUP_EXCEPT", "", 3, 262),
       I("RAISE", "RuntimeError", 0, 263),
       I("PRINT", "inside gen:", 0, 269),
       I("YIELD", "", 0, 270),
       I("JUMP", "", 3, 267) >>

Cell6 ==
    << I("MAKE_GEN", "gen6", 1, 272),
       I("PRINT", "outside gen, before first iteration:", 0, 273),
       I("NEXT", "", 1, 274),
       I("PRINT", "outside gen, after first iteration:", 0, 277),
       I("SETUP_EXCEPT", "", 7, 279),
       I("RAISE", "ValueError", 0, 280),
       I("PRINT", "outside gen:", 0, 282),
       I("NEXT", "", 1, 283),
       I("POP_EXCEPT", "", 0, 283),
       I("RETURN", "", 0, 283) >>

gen7 ==
    << I("SETUP_EXCEPT", "", 3, 322),
       I("RAISE", "KeyError", 0, 323),
       I("YIELD", "", 0, 325),
       I("PRINT", "double-nested:", 0, 326),
       I("POP_EXCEPT", "", 0, 326),
       I("PRINT", "single-nested again:", 0, 328),
       I("RETURN", "", 0, 328) >>

Cell7 ==
    << I("MAKE_GEN", "gen7", 1, 330),
       I("NEXT", "", 1, 331),
       I("SETUP_EXCEPT", "", 5, 332),
       I("RAISE", "ValueError", 0, 333),
       I("PRINT", "single-nested:", 0, 335),
       I("NEXT_DEFAULT", "", 1, 336),
       I("POP_EXCEPT", "", 0, 336),
       I("RETURN", "", 0, 336) >>

Cells == 2..7
FreeCell == 0
GenKinds == {"gen5", "gen6", "gen7"}

Code(name) ==
    CASE name = "cell2" -> Cell2
      [] name = "cell3" -> Cell3
      [] name = "cell4" -> Cell4
      [] name = "cell5" -> Cell5
      [] name = "cell6" -> Cell6
      [] name = "cell7" -> Cell7
      [] name = "subroutine" -> subroutine
      [] name = "gen5" -> gen5
      [] name = "gen6" -> gen6
      [] name = "gen7" -> gen7

CellCode(c) ==
    CASE c = 2 -> "cell2"
      [] c = 3 -> "cell3"
      [] c = 4 -> "cell4"
      [] c = 5 -> "cell5"
      [] c = 6 -> "cell6"
      [] c = 7 -> "cell7"
      [] c = FreeCell -> "free"

----------------------------------------------------------------------------
\* Frames, blocks and generator objects.

\* A frame: its code, its position, its block stack, the generator it
\* belongs to (0 for a function or module frame), how it was entered, and
\* the resumer's indicator when it was entered.
Frame(code, pc, blocks, g, how, callerexc) ==
    [code |-> code, pc |-> pc, blocks |-> blocks, gen |-> g, how |-> how,
     callerexc |-> callerexc]

\* A try block whose body is running.
TryBlock(handler) ==
    [type |-> "SETUP_EXCEPT", handler |-> handler, saved |-> NoExc,
     caught |-> NoExc, tmp |-> NoExc, entry |-> NoExc]

\* An except body that is running: `saved` is the indicator the interpreter
\* put aside on entry, `tmp` is _tmp_exc_info_0 of the save/restore pattern,
\* `caught` the error this block handles and `entry` the indicator just
\* before the block was entered.
HandlerBlock(saved, tmp, caught, entry) ==
    [type |-> "EXCEPT_HANDLER", handler |-> 0, saved |-> saved,
     caught |-> caught, tmp |-> tmp, entry |-> entry]

Unbound == [status |-> "unbound", kind |-> "gen5", pc |-> 0, blocks |-> <<>>,
            f_exc |-> NoExc]

Top == stack[Len(stack)]
Pop(s) == SubSeq(s, 1, Len(s) - 1)
SetTop(s, f) == [s EXCEPT ![Len(s)] = f]
Running == stack # <<>>

InHandler(blocks) == \E i \in 1..Len(blocks) : blocks[i].type = "EXCEPT_HANDLER"

----------------------------------------------------------------------------
\* The interpreter's rules for the indicator.

\* The error handled by the nearest handler block that dynamically encloses
\* the top of stk: the blocks of the top frame innermost first, then those
\* of its caller, and so on; "None" when no handler block is active.
RECURSIVE EnclosingCaught(_)
RECURSIVE InnermostCaught(_)
InnermostCaught(blocks) ==
    IF blocks = <<>> THEN NoExc
    ELSE IF blocks[Len(blocks)].type = "EXCEPT_HANDLER"
         THEN blocks[Len(blocks)].caught
         ELSE InnermostCaught(Pop(blocks))

EnclosingCaught(stk) ==
    IF stk = <<>> THEN NoExc
    ELSE IF InHandler(stk[Len(stk)].blocks)
         THEN InnermostCaught(stk[Len(stk)].blocks)
         ELSE EnclosingCaught(Pop(stk))

\* (faulty variant: only the handler blocks of the running frame are seen)
sys_exc_info_lexical ==
    IF stack = <<>> THEN NoExc ELSE InnermostCaught(stack[Len(stack)].blocks)

\* sys.exc_info() reads the thread state.
sys_exc_info == tstate_exc

\* (faulty variant: nothing is put aside)
save_on_entry_nothing(texc) == NoExc

\* Entering an except body puts the current indicator aside.
save_on_entry(texc) == texc

\* (faulty variant: the indicator is cleared on exit)
unwind_except_handler_clear(b) == NoExc

\* (faulty variant: the indicator is left as it is on exit)
unwind_except_handler_keep(b) == b.caught

\* Leaving an except body puts the indicator that was put aside back.
unwind_except_handler(b) == b.saved

\* (faulty variant: the pattern without its restoring line)
tl_restore_skipped(b) == b.caught

\* The save/restore pattern: leaving the block assigns _tmp_exc_info_0 back.
tl_restore(b) == b.tmp

\* What a query reads if the indicator is the thread-local sys._exc_info.
tl_exc_info == tl_exc

\* The plain global: entering an except body assigns the caught error, and
\* nothing else assigns it.
glob_assign(old, caught, E) == IF caught THEN E ELSE old

\* What a query reads if the indicator is that plain global.
glob_exc_info == glob_exc

\* The generator-local variable under the save/restore pattern.  Within one
\* context (the thread, or one generator) the pattern nests, so a context is
\* the list of the values put aside by its active except bodies followed by
\* its current value: with n of its except bodies active after a step, an
\* entered body has appended the caught error E and every left body has
\* dropped its value.
HandlerCount(blocks) ==
    Cardinality({i \in 1..Len(blocks) : blocks[i].type = "EXCEPT_HANDLER"})

RECURSIVE ThreadHandlers(_)
ThreadHandlers(stk) ==
    IF stk = <<>> THEN 0
    ELSE (IF stk[Len(stk)].gen = 0 THEN HandlerCount(stk[Len(stk)].blocks)
                                   ELSE 0)
         + ThreadHandlers(Pop(stk))

ctx_sync(c, n, E) ==
    IF n + 1 > Len(c) THEN Append(c, E) ELSE SubSeq(c, 1, n + 1)

gl_after(stk, E) ==
    [x \in DOMAIN gl |->
        IF x = 0 THEN ctx_sync(gl[0], ThreadHandlers(stk), E)
        ELSE IF \E k \in 1..Len(stk) : stk[k].gen = x
             THEN LET k == CHOOSE k \in 1..Len(stk) : stk[k].gen = x
                  IN  ctx_sync(gl[x], HandlerCount(stk[k].blocks), E)
             ELSE gl[x]]

\* (faulty variant: the generator looks the value up in its resumer)
gl_start_dynamic(status, own, resumer) == <<resumer[Len(resumer)]>>

\* The generator's variable is set from its resumer's when the generator
\* first starts, and is its own from then on.
gl_start(status, own, resumer) ==
    IF status = "created" THEN <<resumer[Len(resumer)]>> ELSE own

\* What a query reads if the indicator is that generator-local variable.
gl_exc_info ==
    LET c == gl[IF stack = <<>> THEN 0 ELSE stack[Len(stack)].gen]
    IN  c[Len(c)]

\* (faulty variant: the generator's own indicator is never swapped in)
resume_exc_noswap(texc, fexc) == [t |-> texc, f |-> texc]

\* Resuming a generator: if it was suspended inside an except body the
\* indicator it had there is swapped in and the resumer's is put aside in
\* the frame, otherwise the resumer's indicator is kept and remembered.
resume_exc(texc, fexc) ==
    IF fexc # NoExc THEN [t |-> fexc, f |-> texc]
                    ELSE [t |-> texc, f |-> texc]

\* (faulty variant: the generator's indicator stays in the thread state)
yield_exc_leak(texc, fexc, blocks) == [t |-> texc, f |-> fexc]

\* (faulty variant: the generator's indicator is dropped at every yield)
yield_exc_drop(texc, fexc, blocks) == [t |-> fexc, f |-> NoExc]

\* (faulty variant: the frame keeps the indicator of its first resumer)
yield_exc_keep(texc, fexc, blocks) ==
    IF InHandler(blocks) THEN [t |-> fexc, f |-> texc]
                         ELSE [t |-> fexc, f |-> fexc]

\* Suspending or finishing a generator: inside an except body of its own the
\* two indicators are swapped back, otherwise the resumer's is restored and
\* the frame's copy cleared.
yield_exc(texc, fexc, blocks) ==
    IF InHandler(blocks) THEN [t |-> fexc, f |-> texc]
                         ELSE [t |-> fexc, f |-> NoExc]

\* (faulty variant: the default of next(g, None) is ignored)
next_raises_always(how) == TRUE

\* next(g, None) absorbs the generator's exhaustion, next(g) raises it.
next_raises(how) == how = "next"

----------------------------------------------------------------------------
\* An error travelling up the block stack of one frame: handler blocks on the
\* way are left (their indicator is put back) until a try block is found.
RECURSIVE UnwindBlocks(_, _, _)
UnwindBlocks(blocks, texc, tl) ==
    IF blocks = <<>>
    THEN [blocks |-> <<>>, exc |-> texc, tl |-> tl, found |-> FALSE,
          handler |-> 0]
    ELSE LET b == blocks[Len(blocks)]
             rest == Pop(blocks)
         IN  IF b.type = "SETUP_EXCEPT"
             THEN [blocks |-> rest, exc |-> texc, tl |-> tl, found |-> TRUE,
                   handler |-> b.handler]
             ELSE UnwindBlocks(rest, unwind_except_handler(b), tl_restore(b))

\* An error E raised in the top frame of stk: the nearest try block of the
\* frame catches it (its except body starts with the old indicator put
\* aside and E as the indicator), otherwise the frame is left and the error
\* continues in its caller; with no frame left it has escaped the cell.
\* Only function and module frames are ever left this way: every raise of a
\* generator of the notebook sits in a try block of its own.
RECURSIVE Propagate(_, _, _, _)
Propagate(stk, texc, tl, E) ==
    IF stk = <<>>
    THEN [stack |-> <<>>, exc |-> texc, tl |-> tl, uncaught |-> E]
    ELSE LET f == stk[Len(stk)]
             u == UnwindBlocks(f.blocks, texc, tl)
         IN  IF u.found
             THEN [stack |-> SetTop(stk,
                       [f EXCEPT !.pc = u.handler,
                                 !.blocks = Append(u.blocks,
                                     HandlerBlock(save_on_entry(u.exc), u.tl,
                                                  E, u.exc))]),
                   exc |-> E, tl |-> E, uncaught |-> NoExc]
             ELSE Propagate(Pop(stk), u.exc, u.tl, E)

\* A return leaves every block of the frame.
RECURSIVE ReturnUnwind(_, _, _)
ReturnUnwind(blocks, texc, tl) ==
    IF blocks = <<>>
    THEN [exc |-> texc, tl |-> tl]
    ELSE LET b == blocks[Len(blocks)]
         IN  IF b.type = "SETUP_EXCEPT"
             THEN ReturnUnwind(Pop(blocks), texc, tl)
             ELSE ReturnUnwind(Pop(blocks), unwind_except_handler(b),
                               tl_restore(b))

\* (faulty variant: discarding a generator leaves its indicator behind)
gen_close_leak(gn, texc, tl) ==
    IF gn.status # "suspended" THEN [exc |-> texc, tl |-> tl]
    ELSE [exc |-> gn.f_exc, tl |-> tl]

\* Rebinding g discards the generator g was bound to.  A suspended one is
\* first closed: it is resumed with the binder's indicator put aside in its
\* frame, the except bodies it was suspended in are left, and the indicator
\* put aside is restored.  No generator of the notebook is suspended inside
\* the body of a try.
gen_close(gn, texc, tl) ==
    IF gn.status # "suspended" THEN [exc |-> texc, tl |-> tl]
    ELSE LET u == ReturnUnwind(gn.blocks, texc, tl)
             y == yield_exc(u.exc, texc, <<>>)
         IN  [exc |-> y.t, tl |-> u.tl]

----------------------------------------------------------------------------
\* The statements an arbitrary driver may run next in frame f.
UnboundNames == {g \in GenNames : gens[g].status = "unbound"}
FirstUnbound == CHOOSE g \in UnboundNames : \A h \in UnboundNames : g <= h
Resumable == {g \in GenNames : gens[g].status \in {"created", "suspended", "finished"}}

FreeStmts(f) ==
    IF f.blocks # <<>> /\ f.blocks[Len(f.blocks)].type = "SETUP_EXCEPT"
    THEN {I("RAISE", e, 0, 0) : e \in DriverErrors}
    ELSE {I("PRINT", "query:", 0, 0), I("SETUP_EXCEPT", "", 0, 0)}
         \cup (IF f.blocks # <<>> THEN {I("POP_EXCEPT", "", 0, 0)} ELSE {})
         \cup {I("CALL", c, 0, 0) : c \in {"subroutine", "free"}}
         \cup (IF Len(stack) > 1 \/ f.blocks = <<>>
               THEN {I("RETURN", "", 0, 0)} ELSE {})
         \cup (IF UnboundNames # {}
               THEN {I("MAKE_GEN", k, FirstUnbound, 0) : k \in GenKinds}
               ELSE {})
         \cup {I(op, "", g, 0) : op \in {"NEXT", "NEXT_DEFAULT"}, g \in Resumable}

\* The instruction(s) the frame may execute next.
Instrs(f) ==
    IF f.code = "free"
    THEN IF steps < MaxSteps THEN FreeStmts(f) ELSE {}
    ELSE {Code(f.code)[f.pc]}

\* Running an instruction of frame f counts against the arbitrary driver's
\* allowance when f is a frame of that driver.
Count(f) == steps' = IF f.code = "free" THEN steps + 1 ELSE steps

Advance(f) == IF f.code = "free" THEN f ELSE [f EXCEPT !.pc = @ + 1]
StartPc(code) == IF code = "free" THEN 0 ELSE 1

----------------------------------------------------------------------------
Init ==
    /\ cell \in Cells \cup {FreeCell}
    /\ stack = << Frame(CellCode(cell), StartPc(CellCode(cell)), <<>>, 0,
                        "module", NoExc) >>
    /\ gens = [g \in GenNames |-> Unbound]
    /\ tstate_exc = NoExc
    /\ tl_exc = NoExc
    /\ out = NoExc
    /\ uncaught = NoExc
    /\ steps = 0
    /\ glob_exc = NoExc
    /\ gl = [x \in {0} \cup GenNames |-> <<NoExc>>]
    /\ seen = 0

\* print(label, sys.exc_info())
PrintExcInfo ==
    /\ Running
    /\ \E i \in Instrs(Top) :
        /\ i.op = "PRINT"
        /\ out' = sys_exc_info
        /\ seen' = IF i.s = "inside gen:" THEN seen + 1 ELSE seen
        /\ stack' = SetTop(stack, Advance(Top))
    /\ Count(Top)
    /\ UNCHANGED <<cell, gens, tstate_exc, tl_exc, uncaught>>
    /\ UNCHANGED <<glob_exc, gl>>

\* try:
SetupExcept ==
    /\ Running
    /\ \E i \in Instrs(Top) :
        /\ i.op = "SETUP_EXCEPT"
        /\ stack' = SetTop(stack,
              [Advance(Top) EXCEPT !.blocks = Append(@, TryBlock(i.n))])
    /\ Count(Top)
    /\ UNCHANGED <<cell, gens, tstate_exc, tl_exc, out, uncaught>>
    /\ UNCHANGED <<glob_exc, gl>>
    /\ UNCHANGED seen

\* raise E
Raise ==
    /\ Running
    /\ \E i \in Instrs(Top) :
        /\ i.op = "RAISE"
        /\ LET r == Propagate(stack, tstate_exc, tl_exc, i.s)
           IN  /\ stack' = r.stack
               /\ tstate_exc' = r.exc
               /\ tl_exc' = r.tl
               /\ uncaught' = r.uncaught
    /\ Count(Top)
    /\ UNCHANGED <<cell, gens, out>>
    /\ \E i \in Instrs(Top) :
        /\ i.op = "RAISE"
        /\ glob_exc' = glob_assign(glob_exc, uncaught' = NoExc, i.s)
        /\ gl' = gl_after(stack', i.s)
    /\ UNCHANGED seen

\* the end of an except body
PopExcept ==
    /\ Running
    /\ \E i \in Instrs(Top) :
        /\ i.op = "POP_EXCEPT"
        /\ LET b == Top.blocks[Len(Top.blocks)]
           IN  /\ b.type = "EXCEPT_HANDLER"
               /\ tstate_exc' = unwind_except_handler(b)
               /\ tl_exc' = tl_restore(b)
               /\ stack' = SetTop(stack,
                     [Advance(Top) EXCEPT !.blocks = Pop(@)])
    /\ Count(Top)
    /\ UNCHANGED <<cell, gens, out, uncaught>>
    /\ gl' = gl_after(stack', NoExc)
    /\ UNCHANGED glob_exc
    /\ UNCHANGED seen

\* subroutine()
Call ==
    /\ Running
    /\ \E i \in Instrs(Top) :
        /\ i.op = "CALL"
        /\ stack' = Append(SetTop(stack, Advance(Top)),
                           Frame(i.s, StartPc(i.s), <<>>, 0, "call", tstate_exc))
    /\ Count(Top)
    /\ UNCHANGED <<cell, gens, tstate_exc, tl_exc, out, uncaught>>
    /\ UNCHANGED <<glob_exc, gl>>
    /\ UNCHANGED seen

\* the end of a function or of the cell
Return ==
    /\ Running
    /\ Top.gen = 0
    /\ \E i \in Instrs(Top) :
        /\ i.op = "RETURN"
        /\ LET u == ReturnUnwind(Top.blocks, tstate_exc, tl_exc)
           IN  /\ tstate_exc' = u.exc
               /\ tl_exc' = u.tl
               /\ stack' = Pop(stack)
    /\ Count(Top)
    /\ UNCHANGED <<cell, gens, out, uncaught>>
    /\ gl' = gl_after(stack', NoExc)
    /\ UNCHANGED glob_exc
    /\ UNCHANGED seen

\* g = gen()
MakeGen ==
    /\ Running
    /\ \E i \in Instrs(Top) :
        /\ i.op = "MAKE_GEN"
        /\ gens' = [gens EXCEPT ![i.n] =
              [status |-> "created", kind |-> i.s, pc |-> 1, blocks |-> <<>>,
               f_exc |-> NoExc]]
        /\ gl' = [gl EXCEPT ![i.n] = <<NoExc>>]
        /\ stack' = SetTop(stack, Advance(Top))
        /\ LET c == gen_close(gens[i.n], tstate_exc, tl_exc)
           IN  /\ tstate_exc' = c.exc
               /\ tl_exc' = c.tl
    /\ Count(Top)
    /\ UNCHANGED <<cell, out, uncaught>>
    /\ UNCHANGED glob_exc
    /\ UNCHANGED seen

How(op) == IF op = "NEXT" THEN "next" ELSE "next_default"

\* next(g) or next(g, None) on a generator that can run
Resume ==
    /\ Running
    /\ \E i \in Instrs(Top) :
        /\ i.op \in {"NEXT", "NEXT_DEFAULT"}
        /\ gens[i.n].status \in {"created", "suspended"}
        /\ LET gn == gens[i.n]
               r == resume_exc(tstate_exc, gn.f_exc)
           IN  /\ tstate_exc' = r.t
               /\ gens' = [gens EXCEPT ![i.n] =
                     [gn EXCEPT !.status = "running", !.f_exc = r.f]]
               /\ gl' = [gl EXCEPT ![i.n] =
                     gl_start(gn.status, gl[i.n], gl[Top.gen])]
               /\ stack' = Append(SetTop(stack, Advance(Top)),
                     Frame(gn.kind, gn.pc, gn.blocks, i.n, How(i.op), tstate_exc))
    /\ Count(Top)
    /\ UNCHANGED <<cell, tl_exc, out, uncaught>>
    /\ UNCHANGED glob_exc
    /\ UNCHANGED seen

\* next(g) or next(g, None) on a generator that has finished
NextExhausted ==
    /\ Running
    /\ \E i \in Instrs(Top) :
        /\ i.op \in {"NEXT", "NEXT_DEFAULT"}
        /\ gens[i.n].status = "finished"
        /\ IF next_raises(How(i.op))
           THEN LET r == Propagate(stack, tstate_exc, tl_exc,
                                   "StopIteration")
                IN  /\ stack' = r.stack
                    /\ tstate_exc' = r.exc
                    /\ tl_exc' = r.tl
                    /\ uncaught' = r.uncaught
           ELSE /\ stack' = SetTop(stack, Advance(Top))
                /\ UNCHANGED <<tstate_exc, tl_exc, uncaught>>
    /\ Count(Top)
    /\ UNCHANGED <<cell, gens, out>>
    /\ \E i \in Instrs(Top) :
        /\ i.op \in {"NEXT", "NEXT_DEFAULT"}
        /\ glob_exc' = glob_assign(glob_exc,
              next_raises(How(i.op)) /\ uncaught' = NoExc, "StopIteration")
    /\ gl' = gl_after(stack', "StopIteration")
    /\ UNCHANGED seen

\* yield
Yield ==
    /\ Running
    /\ Top.gen # 0
    /\ \E i \in Instrs(Top) :
        /\ i.op = "YIELD"
        /\ LET g == Top.gen
               y == yield_exc(tstate_exc, gens[g].f_exc, Top.blocks)
           IN  /\ tstate_exc' = y.t
               /\ gens' = [gens EXCEPT ![g] =
                     [@ EXCEPT !.status = "suspended", !.pc = Top.pc + 1,
                               !.blocks = Top.blocks, !.f_exc = y.f]]
               /\ stack' = Pop(stack)
    /\ Count(Top)
    /\ UNCHANGED <<cell, tl_exc, out, uncaught>>
    /\ UNCHANGED <<glob_exc, gl>>
    /\ UNCHANGED seen

\* the end of a generator's body
GenReturn ==
    /\ Running
    /\ Top.gen # 0
    /\ \E i \in Instrs(Top) :
        /\ i.op = "RETURN"
        /\ LET g == Top.gen
               u == ReturnUnwind(Top.blocks, tstate_exc, tl_exc)
               y == yield_exc(u.exc, gens[g].f_exc, <<>>)
               r == Propagate(Pop(stack), y.t, u.tl, "StopIteration")
           IN  /\ gens' = [gens EXCEPT ![g] =
                     [@ EXCEPT !.status = "finished", !.pc = Top.pc,
                               !.blocks = <<>>, !.f_exc = y.f]]
               /\ IF next_raises(Top.how)
                  THEN /\ stack' = r.stack
                       /\ tstate_exc' = r.exc
                       /\ tl_exc' = r.tl
                       /\ uncaught' = r.uncaught
                  ELSE /\ stack' = Pop(stack)
                       /\ tstate_exc' = y.t
                       /\ tl_exc' = u.tl
                       /\ UNCHANGED uncaught
    /\ Count(Top)
    /\ UNCHANGED <<cell, out>>
    /\ glob_exc' = glob_assign(glob_exc,
          next_raises(Top.how) /\ uncaught' = NoExc, "StopIteration")
    /\ gl' = gl_after(stack', "StopIteration")
    /\ UNCHANGED seen

\* the back edge of `while True:`
Jump ==
    /\ Running
    /\ \E i \in Instrs(Top) :
        /\ i.op = "JUMP"
        /\ stack' = SetTop(stack, [Top EXCEPT !.pc = i.n])
    /\ Count(Top)
    /\ UNCHANGED <<cell, gens, tstate_exc, tl_exc, out, uncaught>>
    /\ UNCHANGED <<glob_exc, gl>>
    /\ UNCHANGED seen

\* The next cell is run once the previous one has finished: a later cell of
\* the notebook, in the same kernel, with everything the earlier cells left.
RunCell ==
    /\ cell \in Cells
    /\ ~Running
    /\ uncaught = NoExc
    /\ \E c \in Cells :
        /\ c > cell
        /\ cell' = c
        /\ stack' = << Frame(CellCode(c), StartPc(CellCode(c)), <<>>, 0,
                             "module", NoExc) >>
    /\ seen' = 0
    /\ UNCHANGED <<gens, tstate_exc, tl_exc, out, uncaught, steps, glob_exc,
                   gl>>

Next ==
    \/ RunCell
    \/ PrintExcInfo
    \/ SetupExcept
    \/ Raise
    \/ PopExcept
    \/ Call
    \/ Return
    \/ MakeGen
    \/ Resume
    \/ NextExhausted
    \/ Yield
    \/ GenReturn
    \/ Jump

Spec == Init /\ [][Next]_vars

\* The notebook as it was run: a session of its own cells only.  The
\* interpreter never pauses inside a cell: whenever a statement can run it
\* eventually does.  Running a further cell is up to the user.  (No cell of
\* the notebook calls next() on a finished generator.)
NotebookInit == Init /\ cell \in Cells

Step ==
    \/ PrintExcInfo
    \/ SetupExcept
    \/ Raise
    \/ PopExcept
    \/ Call
    \/ Return
    \/ MakeGen
    \/ Resume
    \/ Yield
    \/ GenReturn
    \/ Jump

NotebookNext == RunCell \/ Step

Notebook == NotebookInit /\ [][NotebookNext]_vars /\ WF_vars(Step)

----------------------------------------------------------------------------
TypeOK ==
    /\ cell \in Cells \cup {FreeCell}
    /\ tstate_exc \in {NoExc, "ValueError", "KeyError", "RuntimeError"}
    /\ uncaught \in {NoExc, "StopIteration"}
    /\ tl_exc \in {NoExc, "ValueError", "KeyError", "RuntimeError"}
    /\ out \in {NoExc, "ValueError", "KeyError", "RuntimeError"}
    /\ steps \in 0..MaxSteps
    /\ glob_exc \in {NoExc, "ValueError", "KeyError", "RuntimeError",
                      "StopIteration"}
    /\ \A x \in DOMAIN gl : Len(gl[x]) >= 1
    /\ seen \in 0..MaxSteps

----------------------------------------------------------------------------
\* Positions in the notebook's code, by source line.

\* Frame f is about to run the print of the given line.
AtLine(f, line) ==
    /\ f.code # "free"
    /\ f.pc \in 1..Len(Code(f.code))
    /\ Code(f.code)[f.pc].op = "PRINT"
    /\ Code(f.code)[f.pc].line = line

\* Frame f has just run the print of the given line (`out` is what it showed).
Printed(f, line) ==
    /\ f.code # "free"
    /\ f.pc \in 2..(Len(Code(f.code)) + 1)
    /\ Code(f.code)[f.pc - 1].op = "PRINT"
    /\ Code(f.code)[f.pc - 1].line = line

\* The running generator was resumed by the next() of the given line.
ResumedAt(line) ==
    /\ Len(stack) >= 2
    /\ Top.gen # 0
    /\ LET c == stack[Len(stack) - 1]
       IN  /\ c.code # "free"
           /\ c.pc >= 2
           /\ Code(c.code)[c.pc - 1].op \in {"NEXT", "NEXT_DEFAULT"}
           /\ Code(c.code)[c.pc - 1].line = line

SuspendedInHandler(g) ==
    /\ gens[g].status = "suspended"
    /\ InHandler(gens[g].blocks)

NoHandlerActive == \A k \in 1..Len(stack) : ~InHandler(stack[k].blocks)

TopBlock(f) == f.blocks[Len(f.blocks)]

----------------------------------------------------------------------------
\* C1: a generator that caught RuntimeError and suspends inside its own
\* except body reads RuntimeError at every query it makes there, on every
\* resumption, whatever the resumer's indicator is (empty, or the error of a
\* handler the resumer is in).
C1_GenSeesOwnError ==
    (Running /\ Top.code = "gen6" /\ InHandler(Top.blocks)) =>
        /\ sys_exc_info = "RuntimeError"
        /\ Printed(Top, 269) => out = "RuntimeError"

\* cell 6, second resumption, from inside the ValueError handler
C1_Witness ==
    /\ cell = 6
    /\ Running
    /\ Top.code = "gen6"
    /\ Printed(Top, 269)
    /\ ResumedAt(283)
    /\ Top.callerexc = "ValueError"
    /\ out = "RuntimeError"

\* C2: outside the generators, while any number of them exist whose except
\* body handles RuntimeError (not started yet, or suspended inside it), a
\* query reads the resumer's own enclosing error (empty at top level) and
\* never the generators' RuntimeError.
C2_NoLeak ==
    (/\ Running
     /\ Top.gen = 0
     /\ \E g \in GenNames : /\ gens[g].kind = "gen6"
                            /\ gens[g].status \in {"created", "suspended"})
    => /\ sys_exc_info = EnclosingCaught(stack)
       /\ sys_exc_info # "RuntimeError"

\* two generators suspended inside their handlers, the driver inside a
\* ValueError handler of its own
C2_Witness ==
    /\ Running
    /\ Top.gen = 0
    /\ \E g, h \in GenNames :
          /\ g # h
          /\ gens[g].kind = "gen6" /\ SuspendedInHandler(g)
          /\ gens[h].kind = "gen6" /\ SuspendedInHandler(h)
    /\ EnclosingCaught(stack) = "ValueError"
    /\ sys_exc_info = "ValueError"

\* C3: in the nested example the query in the outer except body shows
\* ValueError, the one in the inner body KeyError, and the one after the
\* inner body, still in the outer one, ValueError again.
C3_NestedHandlers ==
    (cell = 4 /\ Running) =>
        /\ Printed(Top, 155) => out = "ValueError"
        /\ Printed(Top, 160) => out = "KeyError"
        /\ Printed(Top, 162) => out = "ValueError"

C3_Witness ==
    /\ cell = 4
    /\ Running
    /\ Printed(Top, 162)
    /\ out = "ValueError"
    /\ Len(Top.blocks) = 1

\* C4: when an except body ends, at any nesting depth, the indicator is
\* again what it was just before that body was entered.
ExitsHandler ==
    /\ Running
    /\ stack' # <<>>
    /\ Len(stack') = Len(stack)
    /\ Top.blocks # <<>>
    /\ TopBlock(Top).type = "EXCEPT_HANDLER"
    /\ stack'[Len(stack')].blocks = Pop(Top.blocks)

C5_EmptyOutsideHandlers ==
    /\ (Running /\ Top.gen = 0 /\ NoHandlerActive) => sys_exc_info = NoExc
    /\ (cell = 2 /\ Running /\ (Printed(Top, 76) \/ Printed(Top, 83)))
           => out = NoExc

\* cell 2 after its except body
C5_Witness ==
    /\ cell = 2
    /\ Running
    /\ Printed(Top, 83)
    /\ Top.blocks = <<>>
    /\ out = NoExc

\* C6: while a handler block for E is the innermost active one, a query
\* reads E, made in the block itself or in a function called from it at any
\* depth.
C6_ThroughCalls ==
    /\ (Running /\ Top.gen = 0 /\ EnclosingCaught(stack) # NoExc)
           => sys_exc_info = EnclosingCaught(stack)
    /\ (cell = 3 /\ Running /\ Printed(Top, 108)) => out = "ValueError"
    /\ (cell = 2 /\ Running /\ Printed(Top, 81)) => out = "ValueError"

\* subroutine() two calls below the handler block
C6_Witness ==
    /\ Len(stack) = 3
    /\ Top.code = "subroutine"
    /\ Printed(Top, 108)
    /\ InHandler(stack[1].blocks)
    /\ ~InHandler(stack[2].blocks)
    /\ out = EnclosingCaught(stack)
    /\ out \in DriverErrors

\* C7: the generator without a handler of its own reads, on each
\* resumption, the indicator of the context that resumed it this time: in
\* cell 5 ValueError, then empty, then KeyError.
C7_WarmUpSeesResumer ==
    (Running /\ Top.code = "gen5" /\ Printed(Top, 209)) =>
        /\ out = EnclosingCaught(Pop(stack))
        /\ cell = 5 =>
            /\ ResumedAt(217) => out = "ValueError"
            /\ ResumedAt(220) => out = NoExc
            /\ ResumedAt(226) => out = "KeyError"

C7_Witness ==
    /\ cell = 5
    /\ Running
    /\ Top.code = "gen5"
    /\ Printed(Top, 209)
    /\ ResumedAt(226)
    /\ out = "KeyError"

\* C8: the appendix cell shows what the inline nested example shows:
\* 'double-nested' KeyError and 'single-nested again' ValueError.
C8_AppendixAsInline ==
    (cell = 7 /\ Running /\ Top.code = "gen7") =>
        /\ Printed(Top, 326) => out = "KeyError"
        /\ Printed(Top, 328) => out = "ValueError"

\* C9: in every cell each raise sits in a try block of the same frame, and
\* no error, the appendix generator's exhaustion included, leaves the cell.
C9_NothingEscapes ==
    cell \in Cells =>
        /\ uncaught = NoExc
        /\ (Running /\ Top.pc \in 1..Len(Code(Top.code))
                    /\ Code(Top.code)[Top.pc].op = "RAISE")
               => /\ Top.blocks # <<>>
                  /\ TopBlock(Top).type = "SETUP_EXCEPT"

\* cell 7 after next(g, None) returned from the finished generator
C9_Witness ==
    /\ cell = 7
    /\ Running
    /\ gens[1].status = "finished"
    /\ uncaught = NoExc

\* C10: on cell 6 the thread-local save/restore variable differs from the
\* indicator both ways: after the first next(g) the caller would read the
\* generator's RuntimeError, and in the generator resumed from the
\* ValueError handler the query would read ValueError.
C10_ThreadLocalDiffers ==
    (cell = 6 /\ Running) =>
        /\ (Top.gen = 0 /\ AtLine(Top, 277))
               => /\ tl_exc_info = "RuntimeError"
                  /\ sys_exc_info = NoExc
        /\ (Top.code = "gen6" /\ AtLine(Top, 269) /\ ResumedAt(283))
               => /\ tl_exc_info = "ValueError"
                  /\ sys_exc_info = "RuntimeError"

C10_Witness ==
    /\ cell = 6
    /\ Running
    /\ Top.code = "gen6"
    /\ AtLine(Top, 269)
    /\ ResumedAt(283)
    /\ tl_exc_info = "ValueError"
    /\ sys_exc_info = "RuntimeError"

----------------------------------------------------------------------------
\* Frame f is about to run a print(..., sys.exc_info()) of the notebook.
AtQuery(f) ==
    /\ f.code # "free"
    /\ f.pc \in 1..Len(Code(f.code))
    /\ Code(f.code)[f.pc].op = "PRINT"

\* C11: in the cells where no generator suspends inside a handler block
\* (basic, subroutine, nested handlers, warm-up generator) the thread-local
\* save/restore variable holds, at every query, the value the indicator has.
C11_ThreadLocalAgrees ==
    (cell \in 2..5 /\ Running /\ AtQuery(Top)) => tl_exc_info = sys_exc_info

\* the warm-up generator resumed from the KeyError handler
C11_Witness ==
    /\ cell = 5
    /\ Running
    /\ Top.code = "gen5"
    /\ AtLine(Top, 209)
    /\ ResumedAt(226)
    /\ tl_exc_info = "KeyError"
    /\ sys_exc_info = "KeyError"


\* C12: a plain global assigned only on entry to a handler, with no save,
\* restore or clear, gives the value of the real indicator at every query
\* point of the basic and subroutine snippets (cells 2 and 3), the
\* top-level query after the except block has exited included.
C12_PlainGlobalAgrees ==
    (cell \in {2, 3} /\ Running /\ AtQuery(Top)) => glob_exc_info = sys_exc_info

\* C13: the generator-local model, whose value is fixed when the generator
\* first starts, agrees with the real indicator at every query point of the
\* suspended-inside-handler snippet (cell 6); in the warm-up snippet (cell 5)
\* the generator keeps reading ValueError, the value of its first start,
\* where the real indicator reads ValueError, empty, KeyError.
C13_GeneratorLocal ==
    /\ (cell = 6 /\ Running /\ AtQuery(Top)) =>
          /\ gl_exc_info = sys_exc_info
          /\ gl_exc_info = "RuntimeError" <=> Top.gen # 0
    /\ (cell = 5 /\ Running /\ Top.code = "gen5" /\ AtLine(Top, 209)) =>
          /\ gl_exc_info = "ValueError"
          /\ ResumedAt(217) => sys_exc_info = "ValueError"
          /\ ResumedAt(220) => sys_exc_info = NoExc
          /\ ResumedAt(226) => sys_exc_info = "KeyError"

C13_Witness == cell = 5 /\ Running /\ Top.code = "gen5" /\ AtLine(Top, 209)
               /\ ResumedAt(226) /\ gl_exc_info = "ValueError"
               /\ sys_exc_info = "KeyError"


\* The notebook's stored output: for the print of a source line, made in a
\* generator resumed by the next() of a source line (0: not in a generator),
\* the value shown.
Transcript ==
    { <<76, 0, NoExc>>, <<81, 0, "ValueError">>, <<83, 0, NoExc>>,
      <<108, 0, "ValueError">>,
      <<155, 0, "ValueError">>, <<160, 0, "KeyError">>,
      <<162, 0, "ValueError">>,
      <<209, 217, "ValueError">>, <<209, 220, NoExc>>,
      <<209, 226, "KeyError">>,
      <<273, 0, NoExc>>, <<269, 274, "RuntimeError">>, <<277, 0, NoExc>>,
      <<282, 0, "ValueError">>, <<269, 283, "RuntimeError">>,
      <<335, 0, "ValueError">>, <<326, 336, "KeyError">>,
      <<328, 336, NoExc>> }

\* The print of transcript entry t has just run.
Shown(t) ==
    /\ Running
    /\ Printed(Top, t[1])
    /\ IF t[2] = 0 THEN Top.gen = 0 ELSE ResumedAt(t[2])

\* C14: what a cell shows does not depend on the cells run before it in the
\* same kernel: whichever earlier cells have run, and whatever generators
\* they left suspended, a cell starts and ends at top level with an empty
\* indicator and each of its prints shows the value of the notebook's
\* transcript.
C14_Independent ==
    cell \in Cells =>
        /\ ~Running => sys_exc_info = NoExc
        /\ (Running /\ Len(stack) = 1 /\ Top.blocks = <<>>)
               => sys_exc_info = NoExc
        /\ \A t \in Transcript : Shown(t) => out = t[3]

\* cell 7 starts after cell 6, whose generator is still suspended inside its
\* RuntimeError handler
C14_Witness ==
    /\ cell = 7
    /\ Running
    /\ Top.code = "cell7"
    /\ Top.pc = 1
    /\ gens[1].kind = "gen6"
    /\ gens[1].status = "suspended"
    /\ InnermostCaught(gens[1].blocks) = "RuntimeError"
    /\ sys_exc_info = NoExc


\* The next() calls the cell's top-level code has made so far.
NextCalls ==
    LET f == stack[1]
    IN  Cardinality({k \in 1..(f.pc - 1) :
            Code(f.code)[k].op \in {"NEXT", "NEXT_DEFAULT"}})

C15_Counts ==
    cell \in {5, 6} =>
        /\ (Running /\ Top.gen = 0) => seen = NextCalls
        /\ (Running /\ Top.gen # 0) =>
              seen = IF Printed(Top, 209) \/ Printed(Top, 269)
                     THEN NextCalls ELSE NextCalls - 1
        /\ ~Running => seen = IF cell = 5 THEN 3 ELSE 2

\* C15: every cell of the notebook finishes, although the generators of
\* cells 5 and 6 loop forever: each next(g) makes the generator print one
\* "inside gen:" line and hands control back at the following yield, so
\* whenever control is with the cell's own code the lines printed are as
\* many as the next() calls made: 3 when cell 5 has finished, 2 when cell 6
\* has.
C15_Terminates == [](C15_Counts) /\ ((cell \in Cells /\ Running) ~> ~Running)

\* cell 5 has finished
C15_Witness == cell = 5 /\ ~Running /\ seen = 3 /\ gens[1].status = "suspended"

============================================================================
